---- MODULE Spec2Model ----
(***************************************************************************)
(* A model of the seqr UI sources:                                         *)
(*   - the redux selectors (src/unnamed/part_000),                         *)
(*   - the ListFieldView form component                                    *)
(*     (src/ui/shared/components/panel/view-fields/ListFieldView.jsx),     *)
(*   - the RnaSeqOutliers component and its d3 graph                       *)
(*     (src/unnamed/part_001).                                             *)
(* JavaScript values are tagged records, objects and arrays live in a heap *)
(* indexed by address, so that reference identity (===) is address         *)
(* equality and is distinct from equality of contents.                     *)
(***************************************************************************)
EXTENDS Integers, Sequences, FiniteSets, TLC

VARIABLES
    heap,        \* the JavaScript heap: heap[a] is the object at address a
    state,       \* selectors: the redux state value handed to the accessors
    calls,       \* selectors: the accessor calls made so far, with their outcomes
    budget,      \* selectors: how many accessor calls the consumers make
    listProps,   \* ListFieldView: the props of the latest render
    element,     \* ListFieldView: the element the latest render returned
    listThrew,   \* ListFieldView: whether the latest render threw
    nRenders,    \* ListFieldView: number of renders so far
    mounted,     \* RnaSeqOutliers: whether the component is mounted
    rnaProps,    \* RnaSeqOutliers: the props of the latest render
    location,    \* RnaSeqOutliers: the location given to GeneSearchLink
    svg,         \* RnaSeqOutliersGraph: the children of the svg element
    drawnProps   \* history: the graph's props at its mount or last change of data

selectorVars == <<state, calls, budget>>
listVars == <<listProps, element, listThrew, nRenders>>
rnaVars == <<mounted, rnaProps, location, svg, drawnProps>>
vars == <<heap, selectorVars, listVars, rnaVars>>

(***************************************************************************)
(* Bounds of the model.                                                    *)
(***************************************************************************)
MaxMissing == 1    \* fields a state object may lack
MaxProbes == 1     \* accessor calls made on a state that may lack fields
MaxCalls == 3      \* accessor calls made on a well-formed state
MaxLen == 2        \* length of the list stored in initialValues
MaxRenders == 3    \* renders of one ListFieldView
MaxData == 3       \* entries of an rnaSeqData array

(***************************************************************************)
(* JavaScript values.                                                      *)
(***************************************************************************)
Undefined == [t |-> "undefined", n |-> 0, s |-> ""]
Null == [t |-> "null", n |-> 0, s |-> ""]
Bool(b) == [t |-> "boolean", n |-> IF b THEN 1 ELSE 0, s |-> ""]
Num(k) == [t |-> "number", n |-> k, s |-> ""]
Str(x) == [t |-> "string", n |-> 0, s |-> x]
Ref(a) == [t |-> "object", n |-> a, s |-> ""]
Fn(name) == [t |-> "function", n |-> 0, s |-> name]

NoFields == [k \in {} |-> Undefined]
Obj(fields) == [kind |-> "object", fields |-> fields, elems |-> <<>>]
Arr(elems) == [kind |-> "array", fields |-> NoFields, elems |-> elems]

\* The subsets of S with at most k elements.
RECURSIVE KSubsets(_, _)
KSubsets(S, k) ==
    IF k = 0 THEN {{}}
    ELSE LET smaller == KSubsets(S, k - 1)
         IN  smaller \cup {T \cup {x} : T \in smaller, x \in S}

\* The sequences over S of length at most k.
BoundedSeq(S, k) == UNION {[1..j -> S] : j \in 0..k}

(***************************************************************************)
(* Evaluation of expressions.  An outcome is the value of an expression,   *)
(* or a thrown TypeError, together with the heap the evaluation leaves.    *)
(***************************************************************************)
Eval(h, v) == [threw |-> FALSE, value |-> v, heap |-> h]

\* r.key : property access on the value of outcome r.
Member(r, key) ==
    IF r.threw THEN r
    ELSE IF r.value.t \in {"undefined", "null"}
         THEN [threw |-> TRUE, value |-> Undefined, heap |-> r.heap]
    ELSE IF r.value.t = "object"
         THEN LET o == r.heap[r.value.n]
              IN  [r EXCEPT !.value =
                      IF key \in DOMAIN o.fields THEN o.fields[key]
                      ELSE IF key = "length" /\ o.kind = "array" THEN Num(Len(o.elems))
                      ELSE Undefined]
    ELSE [r EXCEPT !.value = Undefined]

(***************************************************************************)
(* The selectors.                                                          *)
(***************************************************************************)
\* Faulty variant: the accessor consumes the flag it reads (it clears it in the state).
getProjectsIsLoading_Consuming(h, st) ==
    LET rec == Member(Eval(h, st), "projectsLoading")
        r == Member(rec, "isLoading")
    IN  IF r.threw \/ rec.value.t # "object" THEN r
        ELSE [r EXCEPT !.heap[rec.value.n].fields =
                 [k \in DOMAIN @ \cup {"isLoading"} |->
                     IF k = "isLoading" THEN Bool(FALSE) ELSE @[k]]]

getProjectsIsLoading(h, st) == Member(Member(Eval(h, st), "projectsLoading"), "isLoading")
getProjectsByGuid(h, st) == Member(Eval(h, st), "projectsByGuid")
getProjectCategoriesByGuid(h, st) == Member(Eval(h, st), "projectCategoriesByGuid")
getFamiliesByGuid(h, st) == Member(Eval(h, st), "familiesByGuid")
getIndividualsByGuid(h, st) == Member(Eval(h, st), "individualsByGuid")
getSamplesByGuid(h, st) == Member(Eval(h, st), "samplesByGuid")
getMatchmakerSubmissions(h, st) == Member(Eval(h, st), "matchmakerSubmissions")
getMatchmakerMatches(h, st) == Member(Eval(h, st), "matchmakerMatches")
getMatchmakerMatchesLoading(h, st) ==
    Member(Member(Eval(h, st), "matchmakerMatchesLoading"), "isLoading")
getGenesById(h, st) == Member(Eval(h, st), "genesById")
\* Faulty variant: the loading record is guarded, (state.genesLoading || {}).isLoading.
getGenesIsLoading_Guarded(h, st) ==
    LET rec == Member(Eval(h, st), "genesLoading")
    IN  IF rec.value.t \in {"undefined", "null"} THEN [rec EXCEPT !.value = Undefined]
        ELSE Member(rec, "isLoading")

getGenesIsLoading(h, st) == Member(Member(Eval(h, st), "genesLoading"), "isLoading")
getLocusListsByGuid(h, st) == Member(Eval(h, st), "locusListsByGuid")
getLocusListsIsLoading(h, st) == Member(Member(Eval(h, st), "locusListsLoading"), "isLoading")
\* Faulty variant: the flag is read from the record of the plural slice, locusListsLoading.
getLocusListIsLoading_Plural(h, st) ==
    Member(Member(Eval(h, st), "locusListsLoading"), "isLoading")

getLocusListIsLoading(h, st) == Member(Member(Eval(h, st), "locusListLoading"), "isLoading")
getVariantIsLoading(h, st) == Member(Member(Eval(h, st), "variantLoading"), "isLoading")
getUser(h, st) == Member(Eval(h, st), "user")

\* The exported accessors, in the order of the source.
Accessors ==
    <<"getProjectsIsLoading", "getProjectsByGuid", "getProjectCategoriesByGuid",
      "getFamiliesByGuid", "getIndividualsByGuid", "getSamplesByGuid",
      "getMatchmakerSubmissions", "getMatchmakerMatches", "getMatchmakerMatchesLoading",
      "getGenesById", "getGenesIsLoading", "getLocusListsByGuid",
      "getLocusListsIsLoading", "getLocusListIsLoading", "getVariantIsLoading",
      "getUser">>

\* The call a(st) of the exported accessor named a.
Apply(a, h, st) ==
    CASE a = "getProjectsIsLoading" -> getProjectsIsLoading(h, st)
      [] a = "getProjectsByGuid" -> getProjectsByGuid(h, st)
      [] a = "getProjectCategoriesByGuid" -> getProjectCategoriesByGuid(h, st)
      [] a = "getFamiliesByGuid" -> getFamiliesByGuid(h, st)
      [] a = "getIndividualsByGuid" -> getIndividualsByGuid(h, st)
      [] a = "getSamplesByGuid" -> getSamplesByGuid(h, st)
      [] a = "getMatchmakerSubmissions" -> getMatchmakerSubmissions(h, st)
      [] a = "getMatchmakerMatches" -> getMatchmakerMatches(h, st)
      [] a = "getMatchmakerMatchesLoading" -> getMatchmakerMatchesLoading(h, st)
      [] a = "getGenesById" -> getGenesById(h, st)
      [] a = "getGenesIsLoading" -> getGenesIsLoading(h, st)
      [] a = "getLocusListsByGuid" -> getLocusListsByGuid(h, st)
      [] a = "getLocusListsIsLoading" -> getLocusListsIsLoading(h, st)
      [] a = "getLocusListIsLoading" -> getLocusListIsLoading(h, st)
      [] a = "getVariantIsLoading" -> getVariantIsLoading(h, st)
      [] a = "getUser" -> getUser(h, st)

(***************************************************************************)
(* The redux state objects the selectors are applied to.  The state object *)
(* is heap[1]; the object of the i-th top-level field is heap[i + 1].      *)
(* Every slice is an object of its own, all with the same (empty)          *)
(* contents, so only the address tells two slices apart.                   *)
(***************************************************************************)
StateFields ==
    <<"projectsLoading", "projectsByGuid", "projectCategoriesByGuid", "familiesByGuid",
      "individualsByGuid", "samplesByGuid", "matchmakerSubmissions", "matchmakerMatches",
      "matchmakerMatchesLoading", "genesById", "genesLoading", "locusListsByGuid",
      "locusListsLoading", "locusListLoading", "variantLoading", "user">>

LoadingFields ==
    {"projectsLoading", "matchmakerMatchesLoading", "genesLoading", "locusListsLoading",
     "locusListLoading", "variantLoading"}

FieldNames == {StateFields[i] : i \in 1..Len(StateFields)}
FieldIndex(f) == CHOOSE i \in 1..Len(StateFields) : StateFields[i] = f
FieldAddr(f) == FieldIndex(f) + 1

\* What a state may lack: a top-level field, or the flag of a loading record.
MissablePaths ==
    {<<f>> : f \in FieldNames} \cup {<<f, "isLoading">> : f \in LoadingFields}

\* The heap of a state in which the paths of `missing` are absent and the
\* request of the loading record `busy` (if any) is in flight.
StateHeap(missing, busy) ==
    LET present == {f \in FieldNames : <<f>> \notin missing}
        slice(f) ==
            IF f \in LoadingFields
            THEN IF <<f, "isLoading">> \in missing THEN Obj(NoFields)
                 ELSE Obj([k \in {"isLoading"} |-> Bool(f = busy)])
            ELSE Obj(NoFields)
    IN  <<Obj([f \in present |-> Ref(FieldAddr(f))])>>
        \o [i \in 1..Len(StateFields) |-> slice(StateFields[i])]

NoElement == [type |-> "", props |-> NoFields]

\* No ListFieldView is rendered.
ListIdle ==
    /\ listProps = NoFields
    /\ element = NoElement
    /\ listThrew = FALSE
    /\ nRenders = 0

\* No RnaSeqOutliers is mounted.
RnaIdle ==
    /\ mounted = FALSE
    /\ rnaProps = NoFields
    /\ location = ""
    /\ svg = <<>>
    /\ drawnProps = NoFields

\* The states of the application: every slice and every loading flag present.
InitWellFormed ==
    /\ \E busy \in LoadingFields \cup {""} : heap = StateHeap({}, busy)
    /\ state = Ref(1)
    /\ calls = <<>>
    /\ budget = MaxCalls
    /\ ListIdle
    /\ RnaIdle

\* State objects that may lack some of the fields the accessors read.
InitSelectors ==
    /\ \E missing \in KSubsets(MissablePaths, MaxMissing), busy \in LoadingFields \cup {""} :
           heap = StateHeap(missing, busy)
    /\ state = Ref(1)
    /\ calls = <<>>
    /\ budget = MaxProbes
    /\ ListIdle
    /\ RnaIdle

\* A consumer calls the accessor named a on the current state.
Call(a) ==
    /\ Len(calls) < budget
    /\ LET r == Apply(a, heap, state)
       IN  /\ heap' = r.heap
           /\ calls' = Append(calls, [accessor |-> a, threw |-> r.threw, value |-> r.value])
    /\ UNCHANGED <<state, budget, listVars, rnaVars>>

NextSelectors == \E i \in 1..Len(Accessors) : Call(Accessors[i])

SpecSelectors == InitSelectors /\ [][NextSelectors]_vars

SpecWellFormed == InitWellFormed /\ [][NextSelectors]_vars

(***************************************************************************)
(* ListFieldView.                                                          *)
(***************************************************************************)
\* props.k when destructured: undefined when the prop was not passed.
Prop(props, k) == IF k \in DOMAIN props THEN props[k] ELSE Undefined

\* The rest of a destructuring: props without the names taken out.
Without(props, ks) == [k \in DOMAIN props \ ks |-> props[k]]

\* { ...f, ...g }: the later spread wins.
Merge(f, g) == [k \in DOMAIN f \cup DOMAIN g |-> IF k \in DOMAIN g THEN g[k] ELSE f[k]]

\* The property key a value is converted to in obj[v] and { [v]: ... }.
Key(v) == IF v.t = "string" THEN v.s ELSE v.t

\* The truthiness of a value in a condition.
Truthy(v) ==
    CASE v.t \in {"undefined", "null"} -> FALSE
      [] v.t \in {"boolean", "number"} -> v.n # 0
      [] v.t = "string" -> v.s # ""
      [] OTHER -> TRUE

\* Faulty variant: the descriptor carries no validation rule.
FormFields_NoValidate(h, addElementLabel, field) ==
    LET a == Len(h)
    IN  [threw |-> FALSE,
         value |-> Ref(a + 3),
         heap |-> h \o <<Obj([k \in {"label"} |-> addElementLabel]),
                         Obj([name |-> field,
                              isArrayField |-> Bool(TRUE),
                              addArrayElement |-> Ref(a + 1),
                              component |-> Fn("RemovableInput")]),
                         Arr(<<Ref(a + 2)>>)>>]

\* const fields = [{ name, isArrayField, addArrayElement, validate, component }]
FormFields(h, addElementLabel, field) ==
    LET a == Len(h)
    IN  [threw |-> FALSE,
         value |-> Ref(a + 3),
         heap |-> h \o <<Obj([k \in {"label"} |-> addElementLabel]),
                         Obj([name |-> field,
                              isArrayField |-> Bool(TRUE),
                              addArrayElement |-> Ref(a + 1),
                              validate |-> Fn("validators.required"),
                              component |-> Fn("RemovableInput")]),
                         Arr(<<Ref(a + 2)>>)>>]

\* A new array [''] in place of the value of outcome r.
Placeholder(r) ==
    [r EXCEPT !.heap = Append(r.heap, Arr(<<Str("")>>)), !.value = Ref(Len(r.heap) + 1)]

\* Faulty variant: the length is not looked at, initialValue ? initialValue : [''].
NormalizedValue_NoLength(initialValue) ==
    IF Truthy(initialValue.value) THEN initialValue ELSE Placeholder(initialValue)

\* Faulty variant: a list of one entry is replaced too, initialValue.length > 1.
NormalizedValue_LongerThanOne(initialValue) ==
    IF Truthy(initialValue.value) /\ Member(initialValue, "length").value.n > 1
    THEN initialValue
    ELSE Placeholder(initialValue)

\* (initialValue && initialValue.length) ? initialValue : ['']
NormalizedValue(initialValue) ==
    IF Truthy(initialValue.value) /\ Truthy(Member(initialValue, "length").value)
    THEN initialValue
    ELSE Placeholder(initialValue)

\* Faulty variant: the normalized value is assigned into the caller's initialValues.
DefaultedInitialValues_InPlace(h, initialValues, field) ==
    LET initialValue == Member(Eval(h, initialValues), Key(field))
    IN  IF initialValue.threw \/ initialValues.t # "object" THEN initialValue
        ELSE LET nv == NormalizedValue(initialValue)
             IN  [threw |-> FALSE,
                  value |-> initialValues,
                  heap |-> [nv.heap EXCEPT ![initialValues.n].fields =
                               Merge(@, [k \in {Key(field)} |-> nv.value])]]

\* const initialValue = initialValues[props.field]
\* const defaultedInitialValues = { ...initialValues, [props.field]: ... }
DefaultedInitialValues(h, initialValues, field) ==
    LET initialValue == Member(Eval(h, initialValues), Key(field))
    IN  IF initialValue.threw THEN initialValue
        ELSE LET nv == NormalizedValue(initialValue)
                 own == IF initialValues.t = "object"
                        THEN nv.heap[initialValues.n].fields
                        ELSE NoFields
             IN  [threw |-> FALSE,
                  value |-> Ref(Len(nv.heap) + 1),
                  heap |-> Append(nv.heap,
                                  Obj(Merge(own, [k \in {Key(field)} |-> nv.value])))]

\* <BaseFieldView formFields={fields} initialValues={defaulted} {...props} />
BaseFieldViewProps(fields, defaultedInitialValues, props) ==
    Merge([formFields |-> fields, initialValues |-> defaultedInitialValues], props)

\* const ListFieldView = ({ addElementLabel, initialValues, ...props }) => ...
ListFieldView(h, allProps) ==
    LET addElementLabel == Prop(allProps, "addElementLabel")
        initialValues == Prop(allProps, "initialValues")
        props == Without(allProps, {"addElementLabel", "initialValues"})
        fields == FormFields(h, addElementLabel, Prop(props, "field"))
        defaulted == DefaultedInitialValues(fields.heap, initialValues, Prop(props, "field"))
    IN  IF defaulted.threw
        THEN [threw |-> TRUE, heap |-> defaulted.heap, element |-> NoElement]
        ELSE [threw |-> FALSE,
              heap |-> defaulted.heap,
              element |-> [type |-> "BaseFieldView",
                           props |-> BaseFieldViewProps(fields.value, defaulted.value, props)]]

\* The fields of the edited record, and the strings a list may hold.
ListKeys == {"aliases", "notes"}
ListStrings == {"", "a"}

\* The caller's objects: heap[1] is a list, heap[2] the initialValues object,
\* heap[3] a descriptor list of the caller's own.
ListAddr == 1
InitialValuesAddr == 2
CallerFieldsAddr == 3

InitList ==
    /\ \E list \in BoundedSeq({Str(x) : x \in ListStrings}, MaxLen),
          keys \in SUBSET ListKeys :
          \E values \in [keys -> {Undefined, Null, Ref(ListAddr)}] :
              heap = <<Arr(list), Obj(values), Arr(<<>>)>>
    /\ state = Undefined
    /\ calls = <<>>
    /\ budget = 0
    /\ ListIdle
    /\ RnaIdle

\* The props a parent may pass: field always, the others optionally.
OptionalProps ==
    [addElementLabel |-> Str("Add Alias"),
     initialValues |-> Ref(InitialValuesAddr),
     isEditable |-> Bool(TRUE),
     formFields |-> Ref(CallerFieldsAddr)]

ParentProps ==
    {Merge([k \in {"field"} |-> Str(f)], [k \in opt |-> OptionalProps[k]]) :
        f \in ListKeys, opt \in SUBSET DOMAIN OptionalProps}

RenderWith(p) ==
    LET r == ListFieldView(heap, p)
    IN  /\ heap' = r.heap
        /\ element' = r.element
        /\ listThrew' = r.threw
        /\ listProps' = p
        /\ nRenders' = nRenders + 1
        /\ UNCHANGED <<selectorVars, rnaVars>>

\* The parent renders the component for the first time.
RenderList(p) ==
    /\ nRenders = 0
    /\ RenderWith(p)

\* The parent renders again, with the same props or another field name.
RerenderList(f) ==
    /\ 0 < nRenders
    /\ nRenders < MaxRenders
    /\ RenderWith([listProps EXCEPT !["field"] = Str(f)])

NextList ==
    \/ \E p \in ParentProps : RenderList(p)
    \/ \E f \in ListKeys : RerenderList(f)

SpecList == InitList /\ [][NextList]_vars

(***************************************************************************)
(* RnaSeqOutliers and RnaSeqOutliersGraph.                                 *)
(***************************************************************************)
\* textContent after selection.text(v): null and undefined give no text.
TextContent(v) == IF v.t \in {"undefined", "null"} THEN "" ELSE v.s

\* d.isSignificant ? (genesById[d.geneId] || {}).geneSymbol : null
LabelText(h, genesById, d) ==
    IF Truthy(Member(Eval(h, d), "isSignificant").value)
    THEN LET gene == Member(Eval(h, genesById), Key(Member(Eval(h, d), "geneId").value))
         IN  IF Truthy(gene.value) THEN Member(gene, "geneSymbol").value ELSE Undefined
    ELSE Null

\* The circle and the text appended for the entry d: the entry bound to them,
\* the values handed to the x and y scales, the stroke and the text.
DataPoint(h, props, d) ==
    [datum |-> d,
     x |-> Member(Eval(h, d), props["xField"].s).value,
     y |-> Member(Eval(h, d), props["yField"].s).value,
     stroke |-> IF Truthy(Member(Eval(h, d), "isSignificant").value)
                THEN "red" ELSE "lightgrey",
     text |-> TextContent(LabelText(h, props["genesById"], d))]

\* initPlot: appends one group to the svg, holding the axes (of the fields
\* named by xField and yField), their labels, and one point per entry of data.
initPlot(h, children, props) ==
    LET dataArray == h[props["data"].n].elems
    IN  Append(children,
               [tag |-> "g",
                xField |-> props["xField"].s,
                yField |-> props["yField"].s,
                points |-> [i \in 1..Len(dataArray) |-> DataPoint(h, props, dataArray[i])]])

componentDidMount(h, children, props) == initPlot(h, children, props)

\* Faulty variant: the svg is not cleared before the plot is drawn again.
componentDidUpdate_NoClear(h, children, props, prevProp) ==
    IF props["data"] # prevProp["data"]
    THEN initPlot(h, children, props)
    ELSE children

\* componentDidUpdate: a new data reference clears the svg and draws again.
componentDidUpdate(h, children, props, prevProp) ==
    IF props["data"] # prevProp["data"]
    THEN initPlot(h, <<>>, props)
    ELSE children

\* The functions a parent passes as getLocation: row => row.geneId and
\* row => row.chrom.
LocationFunctions == {Fn("geneId"), Fn("chrom")}
CallLocation(h, getLocation, d) == Member(Eval(h, d), getLocation.s).value

\* An element of an array as join() writes it.
JoinString(v) == IF v.t \in {"undefined", "null"} THEN "" ELSE v.s

\* values.join(',')
RECURSIVE Join(_)
Join(values) ==
    IF values = <<>> THEN ""
    ELSE IF Len(values) = 1 THEN JoinString(values[1])
    ELSE JoinString(values[1]) \o "," \o Join(Tail(values))

\* Faulty variant: the entries are not filtered before their locations are joined.
SearchLocation_Unfiltered(h, rnaSeqData, getLocation) ==
    LET all == h[rnaSeqData.n].elems
    IN  Join([i \in 1..Len(all) |-> CallLocation(h, getLocation, all[i])])

\* rnaSeqData.filter(({ isSignificant }) => isSignificant).map(getLocation).join(',')
SearchLocation(h, rnaSeqData, getLocation) ==
    LET significant == SelectSeq(h[rnaSeqData.n].elems,
                                 LAMBDA d : Truthy(Member(Eval(h, d), "isSignificant").value))
    IN  Join([i \in 1..Len(significant) |-> CallLocation(h, getLocation, significant[i])])

\* <RnaSeqOutliersGraph data={rnaSeqData} {...props} />
GraphProps(allProps) ==
    Merge([data |-> Prop(allProps, "rnaSeqData")],
          Without(allProps, {"rnaSeqData", "familyGuid", "getLocation", "searchType", "title"}))

\* The entries an rnaSeqData array may hold: heap[1] .. heap[4].
RnaEntries ==
    <<Obj([geneId |-> Str("G1"), isSignificant |-> Bool(TRUE), chrom |-> Str("1"),
           zScore |-> Num(4), deltaPsi |-> Num(1), pValue |-> Num(1), pAdjust |-> Num(2)]),
      Obj([geneId |-> Str("G2"), isSignificant |-> Bool(TRUE),
           zScore |-> Num(-3), deltaPsi |-> Num(2), pValue |-> Num(2), pAdjust |-> Num(3)]),
      Obj([geneId |-> Str("G1"), isSignificant |-> Bool(FALSE), chrom |-> Str("2"),
           zScore |-> Num(1), deltaPsi |-> Num(0), pValue |-> Num(50), pAdjust |-> Num(60)]),
      Obj([geneId |-> Str("G2"), chrom |-> Str("X"),
           zScore |-> Num(0), deltaPsi |-> Num(0), pValue |-> Num(90), pAdjust |-> Num(95)])>>

EntryRefs == {Ref(a) : a \in 1..Len(RnaEntries)}

Reverse(q) == [i \in 1..Len(q) |-> q[Len(q) + 1 - i]]

\* heap[5] and heap[6] are the rnaSeqData arrays, heap[7] and heap[8] the
\* genesById objects, heap[9] and heap[10] the genes.
DataAddrs == {5, 6}
GenesAddrs == {7, 8}

InitRna ==
    /\ \E first \in BoundedSeq(EntryRefs, MaxData) :
          \E second \in {first, Reverse(first), <<>>} :
              heap = RnaEntries \o
                     <<Arr(first), Arr(second),
                       Obj([k \in {"G1"} |-> Ref(9)]),
                       Obj([G1 |-> Ref(9), G2 |-> Ref(10)]),
                       Obj([geneSymbol |-> Str("SYM1")]),
                       Obj([geneSymbol |-> Str("SYM2")])>>
    /\ state = Undefined
    /\ calls = <<>>
    /\ budget = 0
    /\ ListIdle
    /\ RnaIdle

\* The fields a parent plots against each other, as <<xField, yField>>.
Axes == {<<"zScore", "pValue">>, <<"deltaPsi", "pAdjust">>}

\* The props a parent passes to RnaSeqOutliers.
RnaProps ==
    {[rnaSeqData |-> Ref(d), getLocation |-> g, genesById |-> Ref(genes),
      xField |-> Str(xy[1]), yField |-> Str(xy[2]),
      familyGuid |-> Str("F1"), searchType |-> Str("genes"), title |-> Str("Outliers")] :
        d \in DataAddrs, g \in LocationFunctions, genes \in GenesAddrs, xy \in Axes}

\* The first render: the link gets its location and the graph is mounted.
MountOutliers(p) ==
    /\ ~mounted
    /\ mounted' = TRUE
    /\ rnaProps' = p
    /\ location' = SearchLocation(heap, p["rnaSeqData"], p["getLocation"])
    /\ svg' = componentDidMount(heap, <<>>, GraphProps(p))
    /\ drawnProps' = GraphProps(p)
    /\ UNCHANGED <<heap, selectorVars, listVars>>

\* The parent passes other props: React.memo renders again, and the graph,
\* a PureComponent, updates when one of its own props is another value.
UpdateOutliers(p) ==
    /\ mounted
    /\ p # rnaProps
    /\ rnaProps' = p
    /\ location' = SearchLocation(heap, p["rnaSeqData"], p["getLocation"])
    /\ svg' = IF GraphProps(p) = GraphProps(rnaProps)
              THEN svg
              ELSE componentDidUpdate(heap, svg, GraphProps(p), GraphProps(rnaProps))
    /\ drawnProps' = IF p["rnaSeqData"] # rnaProps["rnaSeqData"]
                     THEN GraphProps(p)
                     ELSE drawnProps
    /\ UNCHANGED <<mounted, heap, selectorVars, listVars>>

NextRna ==
    \/ \E p \in RnaProps : MountOutliers(p)
    \/ \E p \in RnaProps : UpdateOutliers(p)

SpecRna == InitRna /\ [][NextRna]_vars

(***************************************************************************)
(* Properties of the selectors.                                            *)
(***************************************************************************)
\* The top-level field of the state that each accessor is named after.
SliceOf(a) ==
    CASE a = "getProjectsIsLoading" -> "projectsLoading"
      [] a = "getProjectsByGuid" -> "projectsByGuid"
      [] a = "getProjectCategoriesByGuid" -> "projectCategoriesByGuid"
      [] a = "getFamiliesByGuid" -> "familiesByGuid"
      [] a = "getIndividualsByGuid" -> "individualsByGuid"
      [] a = "getSamplesByGuid" -> "samplesByGuid"
      [] a = "getMatchmakerSubmissions" -> "matchmakerSubmissions"
      [] a = "getMatchmakerMatches" -> "matchmakerMatches"
      [] a = "getMatchmakerMatchesLoading" -> "matchmakerMatchesLoading"
      [] a = "getGenesById" -> "genesById"
      [] a = "getGenesIsLoading" -> "genesLoading"
      [] a = "getLocusListsByGuid" -> "locusListsByGuid"
      [] a = "getLocusListsIsLoading" -> "locusListsLoading"
      [] a = "getLocusListIsLoading" -> "locusListLoading"
      [] a = "getVariantIsLoading" -> "variantLoading"
      [] a = "getUser" -> "user"

TopLevel == heap[state.n].fields

\* A well-formed state has every slice, and every loading record has its flag.
IsWellFormed ==
    /\ FieldNames \subseteq DOMAIN TopLevel
    /\ \A f \in LoadingFields :
           TopLevel[f].t = "object" /\ "isLoading" \in DOMAIN heap[TopLevel[f].n].fields

IsFlagAccessor(a) == SliceOf(a) \in LoadingFields

\* C1 as stated: on a well-formed state every one of the 16 accessors returns
\* the top-level slice it is named after, as the identical reference, with no
\* nested lookup.
C1_ReturnsTopLevelSlice ==
    \A i \in DOMAIN calls :
        IsWellFormed =>
            /\ ~calls[i].threw
            /\ calls[i].value = TopLevel[SliceOf(calls[i].accessor)]

\* C1 amended: on a well-formed state the 10 accessors that are not *Loading
\* accessors return the top-level slice they are named after, as the identical
\* reference; the 6 *Loading accessors return the isLoading flag stored inside
\* their top-level loading record (one nested lookup), not the record.
C1_SliceOrNestedFlag ==
    \A i \in DOMAIN calls :
        IsWellFormed =>
            LET a == calls[i].accessor
            IN  /\ ~calls[i].threw
                /\ ~IsFlagAccessor(a) => calls[i].value = TopLevel[SliceOf(a)]
                /\ IsFlagAccessor(a) =>
                       calls[i].value = heap[TopLevel[SliceOf(a)].n].fields["isLoading"]

\* C1 witness: on a well-formed state whose locus list request is in flight,
\* getLocusListIsLoading has returned the flag true.
C1_Witness ==
    /\ IsWellFormed
    /\ calls # <<>>
    /\ calls[Len(calls)].accessor = "getLocusListIsLoading"
    /\ calls[Len(calls)].value = Bool(TRUE)

\* C2 as stated: whenever the top-level field an accessor reads is missing
\* from the state, the accessor returns undefined and does not throw.
C2_MissingGivesUndefined ==
    \A i \in DOMAIN calls :
        SliceOf(calls[i].accessor) \notin DOMAIN TopLevel =>
            ~calls[i].threw /\ calls[i].value = Undefined

\* C2 amended: when the slice of one of the 10 accessors that are not *Loading
\* accessors is missing, the accessor returns undefined without throwing; when
\* the loading record of a *Loading accessor is present but has no isLoading
\* field, the accessor returns undefined without throwing; when the loading
\* record itself is missing, the *Loading accessor throws a TypeError.
C2_MissingSliceOrThrow ==
    \A i \in DOMAIN calls :
        LET a == calls[i].accessor
            f == SliceOf(a)
        IN  /\ (~IsFlagAccessor(a) /\ f \notin DOMAIN TopLevel) =>
                   ~calls[i].threw /\ calls[i].value = Undefined
            /\ (IsFlagAccessor(a) /\ f \in DOMAIN TopLevel
                   /\ "isLoading" \notin DOMAIN heap[TopLevel[f].n].fields) =>
                   ~calls[i].threw /\ calls[i].value = Undefined
            /\ (IsFlagAccessor(a) /\ f \notin DOMAIN TopLevel) => calls[i].threw

\* C2 witness: getGenesIsLoading was called on a state without genesLoading.
C2_Witness ==
    /\ calls # <<>>
    /\ calls[Len(calls)].accessor = "getGenesIsLoading"
    /\ "genesLoading" \notin DOMAIN TopLevel
    /\ calls[Len(calls)].threw

\* C3: on a well-formed state no accessor call throws, no accessor call
\* changes the state object or anything reachable from it, and every call of an
\* accessor returns what the earlier calls of that accessor returned, whatever
\* was called in between.
C3_AccessorsArePure ==
    /\ [](IsWellFormed => \A i \in DOMAIN calls : ~calls[i].threw)
    /\ [](\A i, j \in DOMAIN calls :
             calls[i].accessor = calls[j].accessor => calls[i] = calls[j])
    /\ [][heap' = heap /\ state' = state]_vars

\* C3 witness: getProjectsIsLoading returned true, another accessor was called,
\* and getProjectsIsLoading was called again.
C3_Witness ==
    /\ IsWellFormed
    /\ Len(calls) >= 3
    /\ calls[1].accessor = "getProjectsIsLoading"
    /\ calls[1].value = Bool(TRUE)
    /\ calls[2].accessor = "getUser"
    /\ calls[3].accessor = "getProjectsIsLoading"

(***************************************************************************)
(* Properties of ListFieldView.                                            *)
(***************************************************************************)
Rendered == nRenders > 0
GivenInitialValues == "initialValues" \in DOMAIN listProps
FieldKey == listProps["field"].s

\* The caller's initialValues object, and the one handed to BaseFieldView.
CallerValues == heap[InitialValuesAddr].fields
PassedValues == heap[element.props["initialValues"].n].fields

IsList(v) == v.t = "object" /\ heap[v.n].kind = "array"
ListOf(v) == heap[v.n].elems

\* The value BaseFieldView gets for the field is a new list holding one ''.
PassedPlaceholder ==
    /\ ~listThrew
    /\ FieldKey \in DOMAIN PassedValues
    /\ IsList(PassedValues[FieldKey])
    /\ ListOf(PassedValues[FieldKey]) = <<Str("")>>

\* C4: when initialValues is given and its entry for the field is absent or the
\* empty list, BaseFieldView gets [''] for the field; and whatever the entry
\* is, the list BaseFieldView gets for the field has at least one entry.
C4_EmptyBecomesPlaceholder ==
    /\ (Rendered /\ GivenInitialValues
          /\ (FieldKey \notin DOMAIN CallerValues
                \/ (IsList(CallerValues[FieldKey]) /\ ListOf(CallerValues[FieldKey]) = <<>>)))
           => PassedPlaceholder
    /\ (Rendered /\ ~listThrew) =>
           /\ IsList(PassedValues[FieldKey])
           /\ Len(ListOf(PassedValues[FieldKey])) >= 1

\* C4 witness: a render whose initialValues hold the empty list for the field.
C4_Witness ==
    /\ Rendered
    /\ GivenInitialValues
    /\ FieldKey \in DOMAIN CallerValues
    /\ CallerValues[FieldKey] = Ref(ListAddr)
    /\ heap[ListAddr].elems = <<>>
    /\ ~listThrew

\* C5: when the entry of initialValues for the field is a list of length > 0,
\* BaseFieldView gets that very list for the field (the same reference), and
\* no render changes the elements of the list.
C5_NonEmptyPreserved ==
    /\ []((Rendered /\ GivenInitialValues
             /\ FieldKey \in DOMAIN CallerValues
             /\ IsList(CallerValues[FieldKey])
             /\ Len(ListOf(CallerValues[FieldKey])) > 0)
            => (/\ ~listThrew
                /\ PassedValues[FieldKey] = CallerValues[FieldKey]))
    /\ [][heap'[ListAddr] = heap[ListAddr]]_vars

\* C5 witness: a render whose initialValues hold the one-entry list [''] for
\* the field, which has the contents of the placeholder.
C5_Witness ==
    /\ Rendered
    /\ GivenInitialValues
    /\ FieldKey \in DOMAIN CallerValues
    /\ CallerValues[FieldKey] = Ref(ListAddr)
    /\ heap[ListAddr].elems = <<Str("")>>
    /\ ~listThrew

\* C6: when the initialValues prop is not passed at all, the render does not
\* fail and BaseFieldView gets [''] for the field.
C6_InitialValuesOptional ==
    (Rendered /\ ~GivenInitialValues) => PassedPlaceholder

\* The descriptor list that ListFieldView builds reached BaseFieldView, the
\* field name is passed through, addElementLabel and the caller's initialValues
\* are not.
PassedOwnDescriptor ==
    LET ff == element.props["formFields"]
    IN  /\ IsList(ff)
        /\ Len(ListOf(ff)) = 1
        /\ LET d == heap[ListOf(ff)[1].n].fields
           IN  /\ DOMAIN d = {"name", "isArrayField", "addArrayElement", "validate", "component"}
               /\ d["name"] = listProps["field"]
               /\ d["isArrayField"] = Bool(TRUE)
               /\ heap[d["addArrayElement"].n].fields =
                      [k \in {"label"} |-> Prop(listProps, "addElementLabel")]
               /\ d["validate"] = Fn("validators.required")
               /\ d["component"] = Fn("RemovableInput")
        /\ element.props["field"] = listProps["field"]
        /\ "addElementLabel" \notin DOMAIN element.props
        /\ element.props["initialValues"] # Prop(listProps, "initialValues")

\* C7 as stated: every render that returns an element hands BaseFieldView the
\* one descriptor ListFieldView builds.
C7_AlwaysOwnDescriptor ==
    (Rendered /\ ~listThrew) => PassedOwnDescriptor

\* C7 amended: every render that returns an element and whose props do not
\* themselves hold a formFields prop hands BaseFieldView the one descriptor
\* ListFieldView builds; a formFields prop of the caller is spread last and
\* replaces the descriptor list.
C7_OwnDescriptorUnlessOverridden ==
    /\ (Rendered /\ ~listThrew /\ "formFields" \notin DOMAIN listProps) => PassedOwnDescriptor
    /\ (Rendered /\ ~listThrew /\ "formFields" \in DOMAIN listProps) =>
           element.props["formFields"] = listProps["formFields"]

\* C7 witness: a render with an add label and no formFields prop.
C7_Witness ==
    /\ Rendered
    /\ ~listThrew
    /\ "formFields" \notin DOMAIN listProps
    /\ "addElementLabel" \in DOMAIN listProps

\* C8: every key of initialValues other than the field reaches BaseFieldView
\* with its value, no key is added but the field, and no render changes the
\* caller's initialValues object or the list stored in it.
C8_OnlyFieldTouched ==
    /\ []((Rendered /\ ~listThrew) =>
            /\ DOMAIN PassedValues = DOMAIN CallerValues \cup {FieldKey}
            /\ \A k \in DOMAIN CallerValues \ {FieldKey} : PassedValues[k] = CallerValues[k])
    /\ [][/\ heap'[InitialValuesAddr] = heap[InitialValuesAddr]
          /\ heap'[ListAddr] = heap[ListAddr]]_vars

\* C8 witness: after two renders the field was normalized and another key of
\* initialValues holds a list.
C8_Witness ==
    /\ nRenders >= 2
    /\ ~listThrew
    /\ FieldKey \notin DOMAIN CallerValues
    /\ \E k \in DOMAIN CallerValues : CallerValues[k] = Ref(ListAddr)

(***************************************************************************)
(* Properties of RnaSeqOutliers and its graph.                             *)
(***************************************************************************)
DataOf(ref) == heap[ref.n].elems
IsSignificant(d) ==
    LET e == heap[d.n].fields
    IN  "isSignificant" \in DOMAIN e /\ e["isSignificant"] = Bool(TRUE)

\* The svg holds one group, drawn from the props gp.
OnePlotOf(gp) ==
    /\ Len(svg) = 1
    /\ svg[1].tag = "g"
    /\ svg[1].xField = gp["xField"].s
    /\ svg[1].yField = gp["yField"].s
    /\ Len(svg[1].points) = Len(DataOf(gp["data"]))
    /\ \A i \in 1..Len(svg[1].points) :
           LET pt == svg[1].points[i]
               e == heap[DataOf(gp["data"])[i].n].fields
               genes == heap[gp["genesById"].n].fields
           IN  /\ pt.datum = DataOf(gp["data"])[i]
               /\ pt.x = e[gp["xField"].s]
               /\ pt.y = e[gp["yField"].s]
               /\ pt.stroke = IF IsSignificant(pt.datum) THEN "red" ELSE "lightgrey"
               /\ pt.text = IF IsSignificant(pt.datum) /\ e["geneId"].s \in DOMAIN genes
                            THEN heap[genes[e["geneId"].s].n].fields["geneSymbol"].s
                            ELSE ""

\* C9: once mounted the svg holds exactly one plot group, the one of the props
\* in force at the mount or at the last change of the data reference; an update
\* with another data reference leaves exactly the plot of the new props, and an
\* update with the same data reference leaves the svg as it was.
C9_RedrawProtocol ==
    /\ [](mounted => OnePlotOf(drawnProps))
    /\ [][(mounted /\ rnaProps'["rnaSeqData"] = rnaProps["rnaSeqData"]) => svg' = svg]_vars
    /\ [][(mounted /\ rnaProps'["rnaSeqData"] # rnaProps["rnaSeqData"])
             => drawnProps' = GraphProps(rnaProps')]_vars

\* C9 witness: the data reference is the one the plot was drawn from, but the
\* x field has changed since: the plot is of the earlier props.
C9_Witness ==
    /\ mounted
    /\ drawnProps["data"] = rnaProps["rnaSeqData"]
    /\ drawnProps["xField"] # rnaProps["xField"]
    /\ Len(svg) = 1
    /\ Len(DataOf(rnaProps["rnaSeqData"])) >= 2

\* The locations of the significant entries among the first k entries of the
\* data, each followed by a comma, in the order of the data.
RECURSIVE LocationsUpTo(_, _, _)
LocationsUpTo(data, key, k) ==
    IF k = 0 THEN ""
    ELSE LET e == heap[data[k].n].fields
             here == IF key \in DOMAIN e THEN e[key].s ELSE ""
         IN  IF IsSignificant(data[k])
             THEN LocationsUpTo(data, key, k - 1) \o here \o ","
             ELSE LocationsUpTo(data, key, k - 1)

====
